---- MODULE Spec2Model ----
(***************************************************************************)
(* Model of monitor-rs: the Presence Scanner (src/src/scanner.rs), the     *)
(* channel wiring and the Announcer (src/src/manager.rs), the Command      *)
(* Listener and the outward publish (src/src/mqtt.rs).                     *)
(*                                                                         *)
(* Time is a discrete clock `now`.  Every await of the code (topic         *)
(* receive, oracle invocation, interscan sleep, presence-timeout sleep,    *)
(* outward publish) separates two actions; code between two awaits is one  *)
(* action.                                                                 *)
(***************************************************************************)
EXTENDS Integers, Sequences, FiniteSets, Bags, TLC

\* ------------------------------------------------------------------ bounds
MaxTime == 2
MaxPublishes == 2
MaxNameLen == 3
MaxClockBack == 1

\* --------------------------------------------------------------- constants
\* broadcast::channel(10), both topics
ChannelCapacity == 10
\* DevicePresence::Present(100)
PresentConfidence == 100
\* announce_device(&name, mac_address, 0)
AbsentConfidence == 0

\* The configured devices (AppConfig.devices): name -> address.
Devices == {"A", "B"}
MacOf(name) == IF name = "A" THEN "AA:AA" ELSE "BB:BB"

\* ScanConfig values in time units (Option<u64> seconds in the code).
SeenDebounceChoices == {2}
TriggerDebounceChoices == {1, 2}
InterscanDelayChoices == {1}
PresenceTimeoutChoices == {2}

\* Option<T>: None, Some(t)
None == <<>>
Some(t) == <<t>>
IsSome(o) == o /= <<>>
Unwrap(o) == o[1]

\* DeviceSeen::NotSeen / DeviceSeen::Seen(at)
NotSeen == None
Seen(at) == Some(at)

\* StateAnnouncement
DeviceTrigger == [type |-> "DeviceTrigger", name |-> ""]
ScanArrive == [type |-> "ScanArrive", name |-> ""]
ScanDepart == [type |-> "ScanDepart", name |-> ""]
CheckStillPresent(name) == [type |-> "CheckStillPresent", name |-> name]

\* DevicePresence
Present(confidence) == <<"Present", confidence>>
Absent == <<"Absent">>

\* DeviceAnnouncement
DeviceAnnouncement(name, mac, presence) ==
    [name |-> name, mac_address |-> mac, presence |-> presence]

\* DeviceMqttMessage
DeviceMqttMessage(name, mac, confidence) ==
    [name |-> name, id |-> mac, confidence |-> confidence, retained |-> FALSE]

VARIABLES
    now,          \* monotonic clock (tokio::time); the wall clock is now + skew
    cfg,          \* Scanner's durations
    order,        \* iteration order of device_map (HashMap: arbitrary, fixed)
    device_map,   \* Scanner.device_map: name -> DeviceState
    last_trigger, \* Scanner::run's local last_trigger
    pc,           \* Scanner task position: recv, sleep, probe, done, aborted
    sweep,        \* locals of the running scan_arrival / scan_departure / scan_device
    rx,           \* command topic: messages retained for the Scanner's receiver
    rx_lagged,    \* messages the receiver missed, not yet reported as Lagged
    timers,       \* spawned presence-timeout tasks: bag of [name, due]
    announce_rx,  \* announcement topic: messages retained for the Announcer
    announce_lagged,
    announcer,    \* Announcer task position: recv, done, failed
    outbox,       \* the outward message published last, and the presence it is for
    disconnected, \* mqtt_client.disconnect() was called
    btle_running, \* handle_btle_events still in its loop
    published,    \* number of commands the Filter and the Listener have sent
    hist,         \* history of the handling of the current command
    io,           \* argument and results of the pure function under check
    skew          \* wall clock (SystemTime) minus monotonic clock (now)

vars == <<now, cfg, order, device_map, last_trigger, pc, sweep, rx, rx_lagged,
          timers, announce_rx, announce_lagged, announcer, outbox, disconnected,
          btle_running, published, hist, io, skew>>

\* std::time::SystemTime::now()
SystemTimeNow == now + skew

\* ------------------------------------------------------- broadcast channel
\* Faulty variant: a full topic rejects the new value (a bounded queue that
\* makes the sender give up) instead of overwriting the oldest.
MutSendRejectsWhenFull(q, lagged, msg) ==
    IF Len(q) < ChannelCapacity
    THEN <<Append(q, msg), lagged>>
    ELSE <<q, lagged>>

\* broadcast::Sender::send on a topic with a live receiver: the value is
\* retained; beyond the capacity the oldest retained value is overwritten and
\* the receiver is marked as having missed it.  Result: <<queue, lagged>>.
Send(q, lagged, msg) ==
    IF Len(q) < ChannelCapacity
    THEN <<Append(q, msg), lagged>>
    ELSE <<Append(Tail(q), msg), lagged + 1>>

\* The Scanner task is alive (its rx, tx and announce_tx are not yet dropped).
ScannerAlive == pc \in {"recv", "sleep", "probe"}

\* The Announcer task is alive (announce_rx not yet dropped).
AnnouncerAlive == announcer = "recv"

\* Live Sender handles of the command topic: the Listener's tx (its loop never
\* ends), the Filter's btle_tx, Scanner.tx, and one clone per sleeping timer.
Senders ==
    {<<"mqtt", "", 0>>}
    \cup (IF btle_running THEN {<<"btle", "", 0>>} ELSE {})
    \cup (IF ScannerAlive THEN {<<"scanner", "", 0>>} ELSE {})
    \cup {<<"timer", t.name, t.due>> : t \in BagToSet(timers)}

\* tx.send(msg) by a publisher of the command topic: Err (nothing retained)
\* when the Scanner's receiver is gone.
PublishCommand(msg) ==
    IF ScannerAlive
    THEN /\ rx' = Send(rx, rx_lagged, msg)[1]
         /\ rx_lagged' = Send(rx, rx_lagged, msg)[2]
    ELSE UNCHANGED <<rx, rx_lagged>>

\* ------------------------------------------------------------- debounces
\* Faulty variant: the debounce comparison reversed.
MutTriggerShouldScanReversed(last, t) ==
    IF ~IsSome(last) THEN TRUE
    ELSE IF t < Unwrap(last) THEN TRUE
    ELSE t - Unwrap(last) < cfg.device_trigger_debounce

\* Faulty variant: >= in place of >.
MutTriggerShouldScanGe(last, t) ==
    IF ~IsSome(last) THEN TRUE
    ELSE IF t < Unwrap(last) THEN TRUE
    ELSE t - Unwrap(last) >= cfg.device_trigger_debounce

\* Scanner::run, DeviceTrigger arm: should_scan_devices
TriggerShouldScan(last, t) ==
    IF ~IsSome(last) THEN TRUE
    ELSE IF t < Unwrap(last) THEN TRUE
    ELSE t - Unwrap(last) > cfg.device_trigger_debounce

\* Faulty variant: >= in place of >.
MutArrivalShouldScanGe(seen, t) ==
    IF ~IsSome(seen) THEN TRUE
    ELSE IF t < Unwrap(seen) THEN TRUE
    ELSE t - Unwrap(seen) >= cfg.device_seen_debounce

\* Scanner::scan_arrival: should_scan
ArrivalShouldScan(seen, t) ==
    IF ~IsSome(seen) THEN TRUE
    ELSE IF t < Unwrap(seen) THEN TRUE
    ELSE t - Unwrap(seen) > cfg.device_seen_debounce

\* -------------------------------------------------------------- history
\* cmd: the command being handled (or handled last, or the Lagged signal
\* received last); at: the time its
\* handling began; seen0, last0: the registry's seen values and last_trigger
\* at that time; swept: the routine it ran; probes: the devices the oracle
\* was invoked for, in order; answers: what the oracle returned, in order;
\* anns: the devices an Announcement was put on the announcement topic for.
NoHist == [cmd |-> None, at |-> 0, seen0 |-> [d \in Devices |-> NotSeen],
           last0 |-> None, swept |-> "none", probes |-> <<>>, answers |-> <<>>,
           anns |-> <<>>]

NewHist(msg, swept) ==
    [cmd |-> Some(msg), at |-> SystemTimeNow,
     seen0 |-> [d \in Devices |-> device_map[d].seen], last0 |-> last_trigger,
     swept |-> swept, probes |-> <<>>, answers |-> <<>>, anns |-> <<>>]

\* No pure function is under check.
NoIo == [fn |-> "none", arg |-> <<>>, once |-> None, twice |-> None]

\* ---------------------------------------------------------------- sweeps
Idle == [kind |-> "none", idx |-> 0, scan_count |-> 0, now |-> 0, wake |-> 0]

Min(S) == CHOOSE x \in S : \A y \in S : x <= y

\* The devices a sweep of this kind probes, from position idx of the
\* iteration on: scan_arrival's should_scan, scan_departure's all.
Candidates(kind, idx, dm) ==
    {j \in idx..Len(order) :
        \/ kind = "depart"
        \/ kind = "arrive" /\ ArrivalShouldScan(dm[order[j]].seen, SystemTimeNow)}

\* The probe scan_device starts: `now` of scan_device is taken, then the
\* oracle is awaited.
StartProbe(kind, j, scan_count, h) ==
    /\ pc' = "probe"
    /\ sweep' = [kind |-> kind, idx |-> j, scan_count |-> scan_count,
                 now |-> SystemTimeNow, wake |-> 0]
    /\ hist' = [h EXCEPT !.probes = Append(@, order[j])]

\* Faulty variant: no sleep between the probes of a sweep.
MutContinueNoSleep(kind, idx, scan_count, dm, h) ==
    LET c == Candidates(kind, idx, dm) IN
    IF c = {}
    THEN /\ pc' = "recv"
         /\ sweep' = Idle
         /\ hist' = h
    ELSE StartProbe(kind, Min(c), scan_count, h)

\* The for loop of scan_arrival / scan_departure from position idx on, up to
\* its next await: skipped devices take no await; a device to scan is slept
\* for when it is not the first scanned; the loop's end returns to recv.
Continue(kind, idx, scan_count, dm, h) ==
    LET c == Candidates(kind, idx, dm) IN
    IF c = {}
    THEN /\ pc' = "recv"
         /\ sweep' = Idle
         /\ hist' = h
    ELSE IF scan_count > 0
    THEN /\ pc' = "sleep"
         /\ sweep' = [kind |-> kind, idx |-> Min(c), scan_count |-> scan_count,
                      now |-> 0, wake |-> now + cfg.interscan_delay]
         /\ hist' = h
    ELSE StartProbe(kind, Min(c), scan_count, h)

\* Position of a device in the iteration order.
IndexOf(name) == CHOOSE j \in 1..Len(order) : order[j] = name

\* --------------------------------------------------------------- Scanner
\* run() returns Err (the ? of a handler): the task ends and the Scanner is
\* dropped with its rx, tx and announce_tx.
Abort(h) ==
    /\ pc' = "aborted"
    /\ sweep' = Idle
    /\ hist' = h
    /\ rx' = <<>>
    /\ rx_lagged' = 0

\* Faulty variant: the re-check runs the arrival sweep instead of one scan_device.
MutHandleCheckStillPresentSweeps(msg) ==
    /\ UNCHANGED last_trigger
    /\ Continue("arrive", 1, 0, device_map, NewHist(msg, "recheck"))

\* Faulty variant: a name that is not in the registry falls back to the first
\* device of the registry, which is probed.
MutHandleCheckStillPresentFallback(msg) ==
    /\ UNCHANGED last_trigger
    /\ IF msg.name \in DOMAIN device_map
       THEN StartProbe("recheck", IndexOf(msg.name), 0, NewHist(msg, "recheck"))
       ELSE StartProbe("recheck", 1, 0, NewHist(msg, "recheck"))

\* StateAnnouncement::CheckStillPresent(device_name) => check_still_present
HandleCheckStillPresent(msg) ==
    /\ UNCHANGED last_trigger
    /\ IF msg.name \in DOMAIN device_map
       THEN StartProbe("recheck", IndexOf(msg.name), 0, NewHist(msg, "recheck"))
       ELSE /\ pc' = "recv"
            /\ sweep' = Idle
            /\ hist' = NewHist(msg, "none")

\* StateAnnouncement::ScanArrive => last_trigger = now; scan_arrival()
HandleScanArrive(msg) ==
    /\ last_trigger' = Some(SystemTimeNow)
    /\ Continue("arrive", 1, 0, device_map, NewHist(msg, "arrive"))

\* Faulty variant: ScanDepart is debounced like a DeviceTrigger.
MutHandleScanDepartDebounced(msg) ==
    IF TriggerShouldScan(last_trigger, SystemTimeNow)
    THEN /\ last_trigger' = Some(SystemTimeNow)
         /\ Continue("depart", 1, 0, device_map, NewHist(msg, "depart"))
    ELSE /\ UNCHANGED last_trigger
         /\ pc' = "recv"
         /\ sweep' = Idle
         /\ hist' = NewHist(msg, "none")

\* StateAnnouncement::ScanDepart => last_trigger = now; scan_departure()
HandleScanDepart(msg) ==
    /\ last_trigger' = Some(SystemTimeNow)
    /\ Continue("depart", 1, 0, device_map, NewHist(msg, "depart"))

\* Faulty variant: a dropped DeviceTrigger renews last_trigger, so that the
\* debounce window slides with every trigger received.
MutHandleDeviceTriggerRenews(msg) ==
    IF TriggerShouldScan(last_trigger, SystemTimeNow)
    THEN /\ last_trigger' = Some(SystemTimeNow)
         /\ Continue("arrive", 1, 0, device_map, NewHist(msg, "arrive"))
    ELSE /\ last_trigger' = Some(SystemTimeNow)
         /\ pc' = "recv"
         /\ sweep' = Idle
         /\ hist' = NewHist(msg, "none")

\* StateAnnouncement::DeviceTrigger => debounce, then scan_arrival()
HandleDeviceTrigger(msg) ==
    IF TriggerShouldScan(last_trigger, SystemTimeNow)
    THEN /\ last_trigger' = Some(SystemTimeNow)
         /\ Continue("arrive", 1, 0, device_map, NewHist(msg, "arrive"))
    ELSE /\ UNCHANGED last_trigger
         /\ pc' = "recv"
         /\ sweep' = Idle
         /\ hist' = NewHist(msg, "none")

\* Faulty variant: the next command is taken while the sweep of the current
\* one sleeps between two probes, and the sweep is dropped.
MutScannerRecvWhileSleeping ==
    /\ pc \in {"recv", "sleep"}
    /\ rx_lagged = 0
    /\ rx /= <<>>
    /\ LET msg == Head(rx) IN
       /\ rx' = Tail(rx)
       /\ CASE msg.type = "CheckStillPresent" -> HandleCheckStillPresent(msg)
            [] msg.type = "ScanArrive" -> HandleScanArrive(msg)
            [] msg.type = "ScanDepart" -> HandleScanDepart(msg)
            [] msg.type = "DeviceTrigger" -> HandleDeviceTrigger(msg)
    /\ UNCHANGED <<io, skew, now, cfg, order, device_map, rx_lagged, timers, announce_rx,
                   announce_lagged, announcer, outbox, disconnected,
                   btle_running, published>>

\* self.rx.recv() returns Ok(msg): the match of Scanner::run up to the
\* handler's first await.
ScannerRecv ==
    /\ pc = "recv"
    /\ rx_lagged = 0
    /\ rx /= <<>>
    /\ LET msg == Head(rx) IN
       /\ rx' = Tail(rx)
       /\ CASE msg.type = "CheckStillPresent" -> HandleCheckStillPresent(msg)
            [] msg.type = "ScanArrive" -> HandleScanArrive(msg)
            [] msg.type = "ScanDepart" -> HandleScanDepart(msg)
            [] msg.type = "DeviceTrigger" -> HandleDeviceTrigger(msg)
    /\ UNCHANGED <<io, skew, now, cfg, order, device_map, rx_lagged, timers, announce_rx,
                   announce_lagged, announcer, outbox, disconnected,
                   btle_running, published>>

\* Err(RecvError::Lagged(_)) as the result of self.rx.recv(), for the history.
LaggedSignal == [type |-> "Lagged", name |-> ""]

\* Faulty variant: Lagged is treated like any error and ends run().
MutScannerRecvLaggedFatal ==
    /\ pc = "recv"
    /\ rx_lagged > 0
    /\ Abort(NewHist(LaggedSignal, "none"))
    /\ UNCHANGED <<io, skew, now, cfg, order, device_map, last_trigger, timers,
                   announce_rx, announce_lagged, announcer, outbox,
                   disconnected, btle_running, published>>

\* self.rx.recv() returns Err(Lagged(_)): logged, the loop continues.
ScannerRecvLagged ==
    /\ pc = "recv"
    /\ rx_lagged > 0
    /\ rx_lagged' = 0
    /\ hist' = NewHist(LaggedSignal, "none")
    /\ UNCHANGED <<io, skew, now, cfg, order, device_map, last_trigger, pc, sweep, rx,
                   timers, announce_rx, announce_lagged, announcer, outbox,
                   disconnected, btle_running, published>>

\* self.rx.recv() returns Err(Closed): every Sender of the command topic is
\* dropped and nothing is retained; break, Ok(()).
ScannerRecvClosed ==
    /\ pc = "recv"
    /\ rx = <<>>
    /\ Senders = {}
    /\ pc' = "done"
    /\ UNCHANGED <<io, skew, now, cfg, order, device_map, last_trigger, sweep, rx,
                   rx_lagged, timers, announce_rx, announce_lagged, announcer,
                   outbox, disconnected, btle_running, published, hist>>

\* tokio::time::sleep(self.interscan_delay) is over: scan_device is called.
ScannerSleepDone ==
    /\ pc = "sleep"
    /\ now >= sweep.wake
    /\ StartProbe(sweep.kind, sweep.idx, sweep.scan_count, hist)
    /\ UNCHANGED <<io, skew, now, cfg, order, device_map, last_trigger, rx, rx_lagged,
                   timers, announce_rx, announce_lagged, announcer, outbox,
                   disconnected, btle_running, published>>

\* Faulty variant: only Present is announced.
MutAnnounceDevicePresentOnly(name, mac_address, presence) ==
    IF AnnouncerAlive
    THEN LET r == Send(announce_rx, announce_lagged,
                       DeviceAnnouncement(name, mac_address, presence))
         IN IF presence = Absent THEN <<TRUE, announce_rx, announce_lagged>>
            ELSE <<TRUE, r[1], r[2]>>
    ELSE <<FALSE, announce_rx, announce_lagged>>

\* announce_device: announce_tx.send(..) is Ok iff the Announcer's receiver is
\* alive.  Result: <<ok, queue, lagged>>.
AnnounceDevice(name, mac_address, presence) ==
    IF AnnouncerAlive
    THEN LET r == Send(announce_rx, announce_lagged,
                       DeviceAnnouncement(name, mac_address, presence))
         IN <<TRUE, r[1], r[2]>>
    ELSE <<FALSE, announce_rx, announce_lagged>>

\* The presence the scanner announces for an oracle answer.
PresenceOf(answer) ==
    IF answer = "present" THEN Present(PresentConfidence) ELSE Absent

\* Faulty variant: the time of the answer is written, not the time read when
\* scan_device began.
MutSeenAfterAnswerTime(answer, probe_now) ==
    IF answer = "present" THEN Seen(SystemTimeNow) ELSE NotSeen

\* device_info.seen after the oracle answered.
SeenAfter(answer, probe_now) ==
    IF answer = "present" THEN Seen(probe_now) ELSE NotSeen

\* Faulty variant: a present answer replaces the pending presence-timeout
\* tasks of the device by the new one.
MutTimersAfterReplaces(answer, name) ==
    IF answer = "present"
    THEN [t \in {u \in BagToSet(timers) : u.name /= name} |-> timers[t]]
         (+) SetToBag({[name |-> name, due |-> now + cfg.presence_timeout]})
    ELSE timers

\* Faulty variant: the presence-timeout task is spawned whatever the answer.
MutTimersAfterAlways(answer, name) ==
    timers (+) SetToBag({[name |-> name, due |-> now + cfg.presence_timeout]})

\* tokio::task::spawn of the presence-timeout task when the device is
\* present: one more timer, due presence_timeout after now.
TimersAfter(answer, name) ==
    IF answer = "present"
    THEN timers (+) SetToBag({[name |-> name, due |-> now + cfg.presence_timeout]})
    ELSE timers

\* What follows a scan_device that returned Ok: the caller's loop goes on
\* (sweeps) or the handler returns (check_still_present).
AfterScanDevice(h) ==
    /\ UNCHANGED <<rx, rx_lagged>>
    /\ IF sweep.kind = "recheck"
       THEN /\ pc' = "recv"
            /\ sweep' = Idle
            /\ hist' = h
       ELSE Continue(sweep.kind, sweep.idx + 1, sweep.scan_count + 1,
                     device_map', h)

\* Faulty variant: the Announcement is emitted first, and a failure to emit
\* it returns before the registry is written and the timer is spawned.
MutScanDeviceAnsweredAnnounceFirst(answer) ==
    LET name == order[sweep.idx]
        a == AnnounceDevice(name, device_map[name].mac_address, PresenceOf(answer))
        h2 == [hist EXCEPT !.answers = Append(@, answer),
                           !.anns = IF a[1] THEN Append(@, name) ELSE @]
    IN
    /\ announce_rx' = a[2]
    /\ announce_lagged' = a[3]
    /\ IF a[1]
       THEN /\ device_map' = [device_map EXCEPT
                                ![name].seen = SeenAfter(answer, sweep.now)]
            /\ timers' = TimersAfter(answer, name)
            /\ AfterScanDevice(h2)
       ELSE /\ UNCHANGED <<device_map, timers>>
            /\ Abort(h2)

\* scan_device after is_device_present(..).await answered Ok(true) / Ok(false)
ScanDeviceAnswered(answer) ==
    LET name == order[sweep.idx]
        a == AnnounceDevice(name, device_map[name].mac_address, PresenceOf(answer))
        h2 == [hist EXCEPT !.answers = Append(@, answer),
                           !.anns = IF a[1] THEN Append(@, name) ELSE @]
    IN
    /\ device_map' = [device_map EXCEPT ![name].seen = SeenAfter(answer, sweep.now)]
    /\ timers' = TimersAfter(answer, name)
    /\ announce_rx' = a[2]
    /\ announce_lagged' = a[3]
    /\ IF a[1] THEN AfterScanDevice(h2) ELSE Abort(h2)

\* Faulty variant: the failure is isolated to the device and the sweep goes on.
MutScanDeviceFailedIsolated ==
    /\ UNCHANGED <<device_map, timers, announce_rx, announce_lagged>>
    /\ AfterScanDevice([hist EXCEPT !.answers = Append(@, "error")])

\* scan_device when is_device_present(..).await? is an Err: nothing is
\* written, the error propagates out of run().
ScanDeviceFailed ==
    /\ UNCHANGED <<device_map, timers, announce_rx, announce_lagged>>
    /\ Abort([hist EXCEPT !.answers = Append(@, "error")])

\* The oracle (hcitool name <MAC>) returns.
ScannerProbeDone ==
    /\ pc = "probe"
    /\ \/ \E answer \in {"present", "absent"} : ScanDeviceAnswered(answer)
       \/ ScanDeviceFailed
    /\ UNCHANGED <<io, skew, now, cfg, order, last_trigger, announcer, outbox,
                   disconnected, btle_running, published>>

\* The spawned presence-timeout task: sleep(presence_timeout) is over, it
\* sends CheckStillPresent(device_name) (an Err is logged) and ends.
TimerFire ==
    \E t \in BagToSet(timers) :
        /\ now >= t.due
        /\ timers' = timers (-) SetToBag({t})
        /\ PublishCommand(CheckStillPresent(t.name))
        /\ UNCHANGED <<io, skew, now, cfg, order, device_map, last_trigger, pc, sweep,
                       announce_rx, announce_lagged, announcer, outbox,
                       disconnected, btle_running, published, hist>>

\* ---------------------------------------------------- Advertisement Filter
\* handle_btle_events: a discovered device passes matching_device, so
\* tx.send(DeviceTrigger) (an Err is logged, the loop goes on).
BtleTrigger ==
    /\ btle_running
    /\ published < MaxPublishes
    /\ published' = published + 1
    /\ PublishCommand(DeviceTrigger)
    /\ UNCHANGED <<io, skew, now, cfg, order, device_map, last_trigger, pc, sweep, timers,
                   announce_rx, announce_lagged, announcer, outbox,
                   disconnected, btle_running, hist>>

\* handle_btle_events: events.next() is None, the loop ends and btle_tx is
\* dropped.
BtleStop ==
    /\ btle_running
    /\ btle_running' = FALSE
    /\ UNCHANGED <<io, skew, now, cfg, order, device_map, last_trigger, pc, sweep, rx,
                   rx_lagged, timers, announce_rx, announce_lagged, announcer,
                   outbox, disconnected, published, hist>>

\* -------------------------------------------------------- Command Listener
\* Topics of inbound publishes, as their '/'-separated segments: the two
\* subscriptions of MqttClient::subscribe under topic_path "monitor".
InboundTopics == {<<"monitor", "scan", "arrive">>, <<"monitor", "scan", "depart">>}

\* Faulty variant: the topic is tested for containing the suffix's word.
MutEndsWithArriveContains(topic) ==
    \E i \in 1..Len(topic) : topic[i] = "arrive"

\* t.ends_with("/arrive")
EndsWithArrive(topic) == Len(topic) >= 2 /\ topic[Len(topic)] = "arrive"

\* MqttClient::event_loop: the message a Publish packet is mapped to.
CommandOfTopic(topic) == IF EndsWithArrive(topic) THEN ScanArrive ELSE ScanDepart

\* MqttClient::event_loop on Incoming(Publish(p)), p.topic = topic:
\* tx.send(message)
MqttPublishTopic(topic) ==
    /\ published < MaxPublishes
    /\ published' = published + 1
    /\ PublishCommand(CommandOfTopic(topic))
    /\ UNCHANGED <<skew, now, cfg, order, device_map, last_trigger, pc, sweep,
                   timers, announce_rx, announce_lagged, announcer, outbox,
                   disconnected, btle_running, hist>>

\* MqttClient::event_loop on a Publish packet of a subscribed topic.
MqttPublish ==
    \E topic \in InboundTopics : MqttPublishTopic(topic) /\ UNCHANGED io

\* ------------------------------------------------------------ sanitize_name
\* A string is the sequence of its chars; a char is named by itself, or by its
\* code point: U+0130 is LATIN CAPITAL LETTER I WITH DOT ABOVE, U+0307 is
\* COMBINING DOT ABOVE, U+1D400 is MATHEMATICAL BOLD CAPITAL A.
Chars == {"T", "D", "t", "e", "s", "d", "v", "i", "c", "1", "2", "3",
          "'", " ", "_", "U+0130", "U+0307", "U+1D400"}

\* char::is_uppercase, char::is_alphanumeric
is_uppercase(c) == c \in {"T", "D", "U+0130", "U+1D400"}

is_alphanumeric(c) ==
    c \in {"T", "D", "t", "e", "s", "d", "v", "i", "c", "1", "2", "3",
           "U+0130", "U+1D400"}

\* The lowercase mapping of one char, as a string: U+0130 maps to two chars,
\* a char without a lowercase mapping to itself.
LowercaseOf(c) ==
    CASE c = "T" -> <<"t">>
      [] c = "D" -> <<"d">>
      [] c = "U+0130" -> <<"i", "U+0307">>
      [] OTHER -> <<c>>

\* str::to_lowercase
RECURSIVE to_lowercase(_)
to_lowercase(name) ==
    IF name = <<>> THEN <<>>
    ELSE LowercaseOf(Head(name)) \o to_lowercase(Tail(name))

\* Faulty variant: the name is not lowercased.
MutSanitizeNameKeepsCase(name) ==
    [i \in 1..Len(name) |-> IF is_alphanumeric(name[i]) THEN name[i] ELSE "_"]

\* sanitize_name
sanitize_name(name) ==
    LET lower == to_lowercase(name) IN
    [i \in 1..Len(lower) |-> IF is_alphanumeric(lower[i]) THEN lower[i] ELSE "_"]

\* --------------------------------------------------------------- Announcer
\* Faulty variant: the confidence of the announcement is passed on for Absent too.
MutConfidenceOfAbsent(presence) ==
    IF presence[1] = "Absent" THEN PresentConfidence ELSE presence[2]

\* announce_scan_results: the confidence passed to mqtt_client.announce_device
ConfidenceOf(presence) ==
    IF presence[1] = "Absent" THEN AbsentConfidence ELSE presence[2]

\* announce_scan_results on Ok(msg): mqtt_client.announce_device(..).await?
\* publishes the outward message, or fails and the function returns the Err
\* (announce_rx is dropped).
AnnouncerHandle ==
    /\ announcer = "recv"
    /\ announce_lagged = 0
    /\ announce_rx /= <<>>
    /\ LET msg == Head(announce_rx) IN
       \/ /\ outbox' = Some([presence |-> msg.presence,
                            message |-> DeviceMqttMessage(msg.name, msg.mac_address,
                                                          ConfidenceOf(msg.presence))])
          /\ announce_rx' = Tail(announce_rx)
          /\ UNCHANGED announcer
       \/ /\ announcer' = "failed"
          /\ announce_rx' = <<>>
          /\ UNCHANGED outbox
    /\ UNCHANGED <<io, skew, now, cfg, order, device_map, last_trigger, pc, sweep, rx,
                   rx_lagged, timers, announce_lagged, disconnected,
                   btle_running, published, hist>>

\* announce_scan_results on Err(Closed): the Scanner's announce_tx is dropped
\* and nothing is retained; break, mqtt_client.disconnect().
AnnouncerClosed ==
    /\ announcer = "recv"
    /\ announce_rx = <<>>
    /\ ~ScannerAlive
    /\ announcer' = "done"
    /\ disconnected' = TRUE
    /\ UNCHANGED <<io, skew, now, cfg, order, device_map, last_trigger, pc, sweep, rx,
                   rx_lagged, timers, announce_rx, announce_lagged, outbox,
                   btle_running, published, hist>>

\* announce_scan_results on Err(Lagged(_)): logged, the loop continues.
AnnouncerRecvLagged ==
    /\ announcer = "recv"
    /\ announce_lagged > 0
    /\ announce_lagged' = 0
    /\ UNCHANGED <<io, skew, now, cfg, order, device_map, last_trigger, pc, sweep, rx,
                   rx_lagged, timers, announce_rx, announcer, outbox,
                   disconnected, btle_running, published, hist>>

\* ------------------------------------------------------------------- clock
Tick ==
    /\ now < MaxTime
    /\ now' = now + 1
    /\ UNCHANGED <<io, skew, cfg, order, device_map, last_trigger, pc, sweep, rx,
                   rx_lagged, timers, announce_rx, announce_lagged, announcer,
                   outbox, disconnected, btle_running, published, hist>>

\* ------------------------------------------------------------ specification
Orders == {o \in [1..Cardinality(Devices) -> Devices] :
             \A i, j \in DOMAIN o : i /= j => o[i] /= o[j]}

Configs == [device_seen_debounce : SeenDebounceChoices,
            device_trigger_debounce : TriggerDebounceChoices,
            interscan_delay : InterscanDelayChoices,
            presence_timeout : PresenceTimeoutChoices]

\* Scanner::new, Manager::run_loop
InitProgram ==
    /\ now = 0
    /\ skew = 0
    /\ cfg \in Configs
    /\ order \in Orders
    /\ device_map = [d \in Devices |-> [mac_address |-> MacOf(d), seen |-> NotSeen]]
    /\ last_trigger = None
    /\ pc = "recv"
    /\ sweep = Idle
    /\ rx = <<>>
    /\ rx_lagged = 0
    /\ timers = EmptyBag
    /\ announce_rx = <<>>
    /\ announce_lagged = 0
    /\ announcer = "recv"
    /\ outbox = None
    /\ disconnected = FALSE
    /\ btle_running = TRUE
    /\ published = 0
    /\ hist = NoHist

Init == InitProgram /\ io = NoIo

\* ScannerRecvLagged and ScannerRecvClosed are no disjuncts of Next: with
\* MaxPublishes commands from outside the command topic never holds more than
\* ChannelCapacity messages, so rx_lagged stays 0, and Senders always holds the
\* Listener's and the Scanner's own Sender, so it is never empty.
Next ==
    \/ ScannerRecv
    \/ ScannerSleepDone
    \/ ScannerProbeDone
    \/ TimerFire
    \/ BtleTrigger
    \/ BtleStop
    \/ MqttPublish
    \/ AnnouncerHandle
    \/ AnnouncerClosed
    \/ Tick

Spec == Init /\ [][Next]_vars

\* --------------------------------------------- specification: wall clock
\* SystemTime is not monotonic: the wall clock is set back by one time unit.
\* The sleeps run on the monotonic clock and are not affected.
ClockBack ==
    /\ skew > -MaxClockBack
    /\ skew' = skew - 1
    /\ UNCHANGED <<io, now, cfg, order, device_map, last_trigger, pc, sweep, rx,
                   rx_lagged, timers, announce_rx, announce_lagged, announcer,
                   outbox, disconnected, btle_running, published, hist>>

NextClock ==
    \/ Next
    \/ ClockBack

SpecClock == Init /\ [][NextClock]_vars

\* ------------------------------------------ specification: pure functions
\* The strings of at most n chars over the alphabet S.
RECURSIVE StringsUpTo(_, _)
StringsUpTo(S, n) ==
    IF n = 0 THEN {<<>>}
    ELSE LET shorter == StringsUpTo(S, n - 1) IN
         shorter \cup {Append(x, c) : x \in shorter, c \in S}

\* "Test's Device 123" and "test_s_device_123" (tests::test_sanitize_name)
TestName == <<"T", "e", "s", "t", "'", "s", " ", "D", "e", "v", "i", "c", "e",
              " ", "1", "2", "3">>

TestSanitized == <<"t", "e", "s", "t", "_", "s", "_", "d", "e", "v", "i", "c", "e",
                   "_", "1", "2", "3">>

\* Device names given to sanitize_name.
NameInputs ==
    StringsUpTo({"T", "s", "1", "'", " ", "_", "U+0130", "U+1D400"}, MaxNameLen)
    \cup {TestName}

\* topic_path of the configuration: the default and one that is itself the
\* word of the arrive suffix.
TopicPaths == {"monitor", "arrive"}

\* Topics of the Publish packets the subscriptions can bring.
TopicInputs ==
    {<<tp, "scan", "arrive">> : tp \in TopicPaths}
    \cup {<<tp, "scan", "depart">> : tp \in TopicPaths}

\* The calls under check, not yet made.
PureCalls ==
    [fn : {"sanitize_name"}, arg : NameInputs, once : {None}, twice : {None}]
    \cup [fn : {"event_loop"}, arg : TopicInputs, once : {None}, twice : {None}]

InitPure == InitProgram /\ io \in PureCalls

\* sanitize_name(arg) is called.
SanitizeName ==
    /\ io.fn = "sanitize_name"
    /\ io.once = None
    /\ io' = [io EXCEPT !.once = Some(sanitize_name(io.arg))]
    /\ UNCHANGED <<skew, now, cfg, order, device_map, last_trigger, pc, sweep, rx,
                   rx_lagged, timers, announce_rx, announce_lagged, announcer,
                   outbox, disconnected, btle_running, published, hist>>

\* sanitize_name is called on its own result.
SanitizeAgain ==
    /\ io.fn = "sanitize_name"
    /\ IsSome(io.once)
    /\ io.twice = None
    /\ io' = [io EXCEPT !.twice = Some(sanitize_name(Unwrap(io.once)))]
    /\ UNCHANGED <<skew, now, cfg, order, device_map, last_trigger, pc, sweep, rx,
                   rx_lagged, timers, announce_rx, announce_lagged, announcer,
                   outbox, disconnected, btle_running, published, hist>>

\* The Listener receives the Publish packet of topic arg.
ListenerReceives ==
    /\ io.fn = "event_loop"
    /\ io.once = None
    /\ MqttPublishTopic(io.arg)
    /\ io' = [io EXCEPT !.once = Some(io.arg)]

NextPure ==
    \/ SanitizeName
    \/ SanitizeAgain
    \/ ListenerReceives

SpecPure == InitPure /\ [][NextPure]_vars

\* ------------------------------------------------- specification: backlog
\* A sequence of n copies of x.
Repeat(n, x) == [i \in 1..n |-> x]

\* The program under a burst of commands, while the Announcer is slow.  One
\* time unit ago a ScanArrive swept the registry: the first device answered
\* absent and, an interscan delay later (now), the second answered present.
\* Since then, at this same time, the Listener has published ScanArrive
\* after ScanArrive, each of which probed the first device alone (the second
\* is within the seen debounce) and found it absent, and the Filter has
\* published DeviceTrigger after DeviceTrigger, which wait on the command
\* topic.  The Announcer has handled no Announcement yet.  Both topics hold
\* as many messages as their capacity.  (The iteration order is fixed: the
\* state is symmetric in the two devices.)
InitLag ==
    /\ now = 0
    /\ skew = 0
    /\ cfg \in Configs
    /\ order = <<"A", "B">>
    /\ device_map = [d \in Devices |->
                       [mac_address |-> MacOf(d),
                        seen |-> IF d = order[2] THEN Seen(0) ELSE NotSeen]]
    /\ last_trigger = Some(0)
    /\ pc = "recv"
    /\ sweep = Idle
    /\ rx = Repeat(ChannelCapacity, DeviceTrigger)
    /\ rx_lagged = 0
    /\ timers = SetToBag({[name |-> order[2], due |-> cfg.presence_timeout]})
    /\ announce_rx =
          <<DeviceAnnouncement(order[1], MacOf(order[1]), Absent),
            DeviceAnnouncement(order[2], MacOf(order[2]), Present(PresentConfidence))>>
          \o Repeat(ChannelCapacity - 2,
                    DeviceAnnouncement(order[1], MacOf(order[1]), Absent))
    /\ announce_lagged = 0
    /\ announcer = "recv"
    /\ outbox = None
    /\ disconnected = FALSE
    /\ btle_running = TRUE
    /\ published = 0
    /\ hist = [cmd |-> Some(ScanArrive), at |-> 0,
               seen0 |-> [d \in Devices |->
                            IF d = order[2] THEN Seen(0) ELSE NotSeen],
               last0 |-> Some(0), swept |-> "arrive", probes |-> <<order[1]>>,
               answers |-> <<"absent">>, anns |-> <<order[1]>>]
    /\ io = NoIo

\* With a backlog the receivers can fall behind: the Lagged arms are taken.
NextLag ==
    \/ Next
    \/ ScannerRecvLagged
    \/ AnnouncerRecvLagged

SpecLag == InitLag /\ [][NextLag]_vars

\* ------------------------------------------------ specification: overflow
\* The program when a recheck is the oldest command of a full command topic.
\* Three time units ago a ScanArrive swept the registry: the first device
\* answered absent and, an interscan delay later, the second answered
\* present; the Announcer has published both.  The recheck timer of the
\* second device has just run out (now) and has published its
\* CheckStillPresent, and the Filter has published DeviceTrigger after
\* DeviceTrigger behind it, before the Scanner took any of them: the command
\* topic holds as many messages as its capacity.  (The iteration order is
\* fixed: the state is symmetric in the two devices.)
InitOverflow ==
    /\ now = 0
    /\ skew = 0
    /\ cfg \in Configs
    /\ order = <<"A", "B">>
    /\ device_map = [d \in Devices |->
                       [mac_address |-> MacOf(d),
                        seen |-> IF d = order[2]
                                 THEN Seen(0 - cfg.presence_timeout)
                                 ELSE NotSeen]]
    /\ last_trigger = Some(0 - cfg.presence_timeout - cfg.interscan_delay)
    /\ pc = "recv"
    /\ sweep = Idle
    /\ rx = <<CheckStillPresent(order[2])>>
             \o Repeat(ChannelCapacity - 1, DeviceTrigger)
    /\ rx_lagged = 0
    /\ timers = EmptyBag
    /\ announce_rx = <<>>
    /\ announce_lagged = 0
    /\ announcer = "recv"
    /\ outbox = Some([presence |-> Present(PresentConfidence),
                      message |-> DeviceMqttMessage(order[2], MacOf(order[2]),
                                                    PresentConfidence)])
    /\ disconnected = FALSE
    /\ btle_running = TRUE
    /\ published = 0
    /\ hist = [cmd |-> Some(ScanArrive),
               at |-> 0 - cfg.presence_timeout - cfg.interscan_delay,
               seen0 |-> [d \in Devices |-> NotSeen],
               last0 |-> None, swept |-> "arrive", probes |-> <<order[1], order[2]>>,
               answers |-> <<"absent", "present">>, anns |-> <<order[1], order[2]>>]
    /\ io = NoIo

\* With a full command topic the Scanner can fall behind: its Lagged arm is
\* taken.
NextOverflow ==
    \/ Next
    \/ ScannerRecvLagged

SpecOverflow == InitOverflow /\ [][NextOverflow]_vars

\* ------------------------------------------- specification: unknown name
\* A device name that is no key of the registry.
UnknownName == "C"

\* CheckStillPresent carries any String (messages.rs): a holder of a Sender of
\* the command topic sends one whose name is not in the registry.  (The
\* presence-timeout tasks, the only senders of CheckStillPresent in the
\* program, send names of the registry alone.)
RecheckUnknown ==
    /\ published < MaxPublishes
    /\ published' = published + 1
    /\ PublishCommand(CheckStillPresent(UnknownName))
    /\ UNCHANGED <<io, skew, now, cfg, order, device_map, last_trigger, pc, sweep,
                   timers, announce_rx, announce_lagged, announcer, outbox,
                   disconnected, btle_running, hist>>

NextUnknown ==
    \/ Next
    \/ RecheckUnknown

SpecUnknown == Init /\ [][NextUnknown]_vars

\* =================================================================== claims
\* The step is the Scanner taking msg from the command topic and handling it.
Handles(msg) == pc = "recv" /\ rx_lagged = 0 /\ rx /= <<>> /\ Head(rx) = msg /\ rx' = Tail(rx)

\* The step is the oracle returning this answer to the running scan_device.
Answered(answer) ==
    /\ pc = "probe"
    /\ Len(hist'.answers) = Len(hist.answers) + 1
    /\ hist'.answers[Len(hist'.answers)] = answer

\* The device of the running scan_device.
ProbedName == order[sweep.idx]

\* The step puts msg on the command topic.
Published(msg) == Len(rx') = Len(rx) + 1 /\ rx'[Len(rx')] = msg

Count(seq, x) == Cardinality({i \in 1..Len(seq) : seq[i] = x})

\* The handling of the command of hist is over (returned, or run() ended).
HandlingOver == pc \in {"recv", "aborted", "done"}

WithinSeenDebounce(seen, t) ==
    IsSome(seen) /\ t - Unwrap(seen) <= cfg.device_seen_debounce

\* C1 (as claimed): once the handling of a ScanArrive is over, every device
\* that was NotSeen when it began has been probed exactly once and has had
\* exactly one Announcement emitted during that handling.
C1_Claim ==
    (hist.cmd = Some(ScanArrive) /\ HandlingOver) =>
        \A d \in Devices :
            hist.seen0[d] = NotSeen =>
                Count(hist.probes, d) = 1 /\ Count(hist.anns, d) = 1

\* C2: in an arrival sweep (of a ScanArrive or an accepted DeviceTrigger) no
\* device is probed whose lastSeenAt is set and within deviceSeenDebounce of
\* the time of the probe, and an Announcement is emitted only for a probed
\* device.
C2_RecentDeviceNotProbedOnArrival ==
    hist.swept = "arrive" =>
        /\ \A i \in 1..Len(hist.probes) :
              ~WithinSeenDebounce(hist.seen0[hist.probes[i]], now)
        /\ Len(hist.anns) <= Len(hist.probes)
        /\ \A i \in 1..Len(hist.anns) : hist.anns[i] = hist.probes[i]

\* C2's scenario: A never seen, B seen within the debounce; the ScanArrive
\* sweep is over with one probe, of A.
C2_Witness ==
    /\ hist.cmd = Some(ScanArrive)
    /\ pc = "recv"
    /\ hist.seen0["A"] = NotSeen
    /\ WithinSeenDebounce(hist.seen0["B"], now)
    /\ hist.probes = <<"A">>
    /\ hist.anns = <<"A">>

\* C3: a DeviceTrigger handled less than deviceTriggerDebounce after
\* lastGlobalTrigger is dropped: no probe, no Announcement, no state change.
C3_EarlyTriggerDropped ==
    [][(/\ Handles(DeviceTrigger)
        /\ IsSome(last_trigger)
        /\ now >= Unwrap(last_trigger)
        /\ now - Unwrap(last_trigger) < cfg.device_trigger_debounce)
       => /\ pc' = "recv"
          /\ hist'.swept = "none"
          /\ hist'.probes = <<>>
          /\ hist'.anns = <<>>
          /\ UNCHANGED <<device_map, last_trigger, timers, announce_rx>>]_vars

C3_Witness ==
    /\ hist.cmd = Some(DeviceTrigger)
    /\ hist.swept = "none"
    /\ hist.probes = <<>>
    /\ IsSome(hist.last0)
    /\ hist.at - Unwrap(hist.last0) < cfg.device_trigger_debounce

\* The devices an arrival sweep begun now would probe.
ArrivalDue == {d \in Devices : ~WithinSeenDebounce(device_map[d].seen, now)}

\* The step begins an arrival sweep over the whole registry.
BeginsArrivalSweep ==
    /\ hist'.swept = "arrive"
    /\ IF ArrivalDue = {}
       THEN pc' = "recv" /\ hist'.probes = <<>>
       ELSE /\ pc' = "probe"
            /\ order[sweep'.idx] \in ArrivalDue
            /\ \A j \in 1..(sweep'.idx - 1) : order[j] \notin ArrivalDue
            /\ hist'.probes = <<order[sweep'.idx]>>

\* C4 (as claimed): a DeviceTrigger handled with lastGlobalTrigger unset or
\* at least deviceTriggerDebounce old updates lastGlobalTrigger and runs the
\* arrival sweep.
C4_Claim ==
    [][(/\ Handles(DeviceTrigger)
        /\ \/ ~IsSome(last_trigger)
           \/ now - Unwrap(last_trigger) >= cfg.device_trigger_debounce)
       => /\ last_trigger' = Some(now)
          /\ BeginsArrivalSweep]_vars

\* C4 (amended): a DeviceTrigger handled with lastGlobalTrigger unset or
\* strictly more than deviceTriggerDebounce old updates lastGlobalTrigger and
\* begins the arrival sweep; one handled at most deviceTriggerDebounce after
\* it (exactly deviceTriggerDebounce included) is dropped.
C4_TriggerAcceptedStrictlyAfterDebounce ==
    [][Handles(DeviceTrigger) =>
        IF \/ ~IsSome(last_trigger)
           \/ now - Unwrap(last_trigger) > cfg.device_trigger_debounce
        THEN /\ last_trigger' = Some(now)
             /\ BeginsArrivalSweep
        ELSE /\ UNCHANGED last_trigger
             /\ pc' = "recv"
             /\ hist'.swept = "none"
             /\ hist'.probes = <<>>]_vars

C4_Witness ==
    /\ hist.cmd = Some(DeviceTrigger)
    /\ hist.swept = "arrive"
    /\ IsSome(hist.last0)
    /\ hist.at - Unwrap(hist.last0) > cfg.device_trigger_debounce
    /\ last_trigger = Some(hist.at)

\* C5: a probe that finds the device present schedules exactly one recheck
\* timer, for that device, due presenceTimeout later, and no other step
\* schedules one; a RecheckDevice(name) is put on the command topic only by a
\* timer of that device that is due; handling it probes that device, whatever
\* its lastSeenAt and lastGlobalTrigger are, and no other device.
C5_PresentSchedulesOneRecheck ==
    [][/\ Answered("present") =>
            timers' = timers (+) SetToBag({[name |-> ProbedName,
                                            due |-> now + cfg.presence_timeout]})
       /\ ~Answered("present") =>
            \A t \in BagToSet(timers') : CopiesIn(t, timers') <= CopiesIn(t, timers)
       /\ \A d \in Devices :
            /\ Published(CheckStillPresent(d)) =>
                 \E t \in BagToSet(timers) :
                    /\ t.name = d
                    /\ now >= t.due
                    /\ timers' = timers (-) SetToBag({t})
            /\ Handles(CheckStillPresent(d)) =>
                 /\ pc' = "probe"
                 /\ order[sweep'.idx] = d
                 /\ UNCHANGED <<last_trigger, device_map>>
       /\ hist'.swept = "recheck" =>
            /\ Len(hist'.probes) = 1
            /\ hist'.probes[1] = Unwrap(hist'.cmd).name]_vars

\* A RecheckDevice was handled, and its device probed present again, while
\* the device was within deviceSeenDebounce and lastGlobalTrigger within
\* deviceTriggerDebounce.
C5_Witness ==
    /\ hist.swept = "recheck"
    /\ pc = "recv"
    /\ hist.answers = <<"present">>
    /\ WithinSeenDebounce(hist.seen0[Unwrap(hist.cmd).name], hist.at)
    /\ IsSome(hist.last0)
    /\ hist.at - Unwrap(hist.last0) < cfg.device_trigger_debounce
    /\ \E t \in BagToSet(timers) :
          t.name = Unwrap(hist.cmd).name /\ t.due >= hist.at + cfg.presence_timeout

\* C6 (as claimed): once the handling of a ScanDepart is over, every device
\* has been probed exactly once, A then B.
C6_Claim ==
    (hist.cmd = Some(ScanDepart) /\ HandlingOver) => hist.probes = <<"A", "B">>

\* The Announcement of the running scan_device for this oracle answer.
AnnouncementFor(answer) ==
    DeviceAnnouncement(ProbedName, MacOf(ProbedName),
                       IF answer = "present" THEN Present(100) ELSE Absent)

\* C7 (as claimed): every completed probe puts exactly one Announcement, for
\* the probed device, on the announcement topic, and nothing else puts one.
C7_Claim ==
    [][/\ \A answer \in {"present", "absent"} :
            Answered(answer) =>
                announce_rx' = Append(announce_rx, AnnouncementFor(answer))
       /\ Len(announce_rx') > Len(announce_rx) =>
            Answered("present") \/ Answered("absent")]_vars

\* C7 (amended): every completed probe puts exactly one Announcement, for the
\* probed device, on the announcement topic as long as the Announcer is still
\* subscribed to it; once the Announcer has exited, the completed probe puts
\* none and the Scanner loop aborts.  Nothing else puts an Announcement.
C7_OneAnnouncementPerCompletedProbe ==
    [][/\ \A answer \in {"present", "absent"} :
            Answered(answer) =>
                IF announcer = "recv"
                THEN /\ announce_rx' = Append(announce_rx, AnnouncementFor(answer))
                     /\ pc' /= "aborted"
                ELSE /\ announce_rx' = announce_rx
                     /\ pc' = "aborted"
       /\ Len(announce_rx') > Len(announce_rx) =>
            Answered("present") \/ Answered("absent")]_vars

\* A departure sweep, and a re-check, have completed probes with one
\* Announcement each.
C7_Witness ==
    /\ hist.swept = "recheck"
    /\ hist.answers = <<"absent">>
    /\ hist.anns = hist.probes
    /\ Len(announce_rx) >= 3
    /\ announce_rx[Len(announce_rx)].name = hist.probes[1]
    /\ announce_rx[Len(announce_rx)].presence = Absent

\* C8: every outward message for an Absent announcement has confidence 0 and
\* every one for a Present announcement has confidence 100; every Present
\* announcement of the Scanner carries 100.
C8_ConfidenceIsZeroOrHundred ==
    /\ IsSome(outbox) =>
          LET o == Unwrap(outbox) IN
          /\ o.presence[1] = "Absent" => o.message.confidence = 0
          /\ o.presence[1] = "Present" => o.message.confidence = 100
          /\ ~o.message.retained
    /\ \A i \in 1..Len(announce_rx) :
          announce_rx[i].presence \in {Absent, Present(100)}

\* An Absent was published outward and a Present is the next to be.
C8_Witness ==
    /\ IsSome(outbox)
    /\ Unwrap(outbox).presence = Absent
    /\ Unwrap(outbox).message.confidence = 0
    /\ announce_rx /= <<>>
    /\ Head(announce_rx).presence[1] = "Present"

\* C9 (as claimed): the Senders that keep the command topic open are those of
\* its publishers, the Advertisement Filter, the Command Listener and the
\* pending recheck timers, so that the Scanner's receive yields Closed once
\* these are gone.
C9_Claim ==
    \A h \in Senders : h[1] \in {"mqtt", "btle", "timer"}

\* C10: an oracle error aborts the Scanner loop: nothing is written or
\* announced for the failed probe, no timer is scheduled, and from then on no
\* device is probed and no command is handled.
C10_ProbeErrorAbortsScanner ==
    [][/\ Answered("error") =>
            /\ pc' = "aborted"
            /\ hist'.probes = hist.probes
            /\ hist'.anns = hist.anns
            /\ UNCHANGED <<device_map, last_trigger, timers, announce_rx>>
       /\ pc = "aborted" =>
            /\ pc' = "aborted"
            /\ rx' = <<>>
            /\ Len(announce_rx') <= Len(announce_rx)
            /\ UNCHANGED <<hist, device_map, last_trigger>>]_vars

\* A departure sweep was aborted by the oracle error of its first probe: the
\* other device was not probed.
C10_Witness ==
    /\ pc = "aborted"
    /\ hist.swept = "depart"
    /\ hist.answers = <<"error">>
    /\ Len(hist.probes) = 1
    /\ hist.anns = <<>>

\* C11 (as claimed): once the Announcer has aborted on a failed outward
\* publish, a bus disconnect has been attempted.
C11_Claim ==
    announcer = "failed" => disconnected

\* The step delivers the Lagged signal of the command topic to the Scanner.
ScannerLaggedStep == pc = "recv" /\ rx_lagged > 0 /\ rx_lagged' = 0

\* The step delivers the Lagged signal of the announcement topic to the
\* Announcer.
AnnouncerLaggedStep ==
    announcer = "recv" /\ announce_lagged > 0 /\ announce_lagged' = 0

\* C12: a Lagged signal on the command topic leaves the Scanner in its loop,
\* ready to receive the oldest retained command; it changes neither the
\* registry nor lastGlobalTrigger, probes nothing, announces nothing and
\* schedules nothing.  A Lagged signal on the announcement topic leaves the
\* Announcer in its loop, with every retained Announcement still to be
\* published.
C12_LaggedIsNotFatal ==
    /\ [][/\ ScannerLaggedStep =>
                /\ pc' = "recv"
                /\ rx' = rx
                /\ hist'.swept = "none"
                /\ hist'.probes = <<>>
                /\ UNCHANGED <<device_map, last_trigger, timers, announce_rx>>
          /\ AnnouncerLaggedStep =>
                /\ announcer' = "recv"
                /\ UNCHANGED <<announce_rx, outbox, disconnected>>]_vars
    /\ [](hist.cmd = Some(LaggedSignal) /\ pc = "recv" /\ rx /= <<>> /\ rx_lagged = 0
            => ENABLED ScannerRecv)

\* Both receivers have been told they lagged and go on: the Scanner is back
\* at its receive with retained commands to handle, the Announcer (which has
\* published nothing yet) has lost the oldest Announcement and is at its
\* receive.
C12_Witness ==
    /\ hist.cmd = Some(LaggedSignal)
    /\ pc = "recv"
    /\ rx /= <<>>
    /\ rx_lagged = 0
    /\ announcer = "recv"
    /\ announce_lagged = 0
    /\ outbox = None
    /\ Len(announce_rx) = ChannelCapacity
    /\ Head(announce_rx).presence = Present(PresentConfidence)

\* The step is a publisher of the command topic sending: the Filter or the
\* Listener (published counts theirs), or a recheck timer that ends.
PublisherStep ==
    \/ published' = published + 1
    \/ \E t \in BagToSet(timers) : timers' = timers (-) SetToBag({t})

\* The commands of the command topic (StateAnnouncement).
Commands ==
    {DeviceTrigger, ScanArrive, ScanDepart} \cup {CheckStillPresent(d) : d \in Devices}

\* What a topic retains, and what its receiver has missed, after msg is
\* published without waiting: at capacity the oldest retained message is lost.
RetainedAfter(q, msg) ==
    IF Len(q) < ChannelCapacity THEN Append(q, msg) ELSE Append(Tail(q), msg)

MissedAfter(q, lagged) ==
    IF Len(q) < ChannelCapacity THEN lagged ELSE lagged + 1

\* C14: a publish on either topic completes in the publisher's own step,
\* whatever the topic holds: a publisher that may send can send with the topic
\* at capacity, the new message is retained and, at capacity, the receiver
\* loses the oldest retained one (and is owed a Lagged signal).
C14_PublishersNeverBlock ==
    /\ [][/\ (PublisherStep /\ ScannerAlive) =>
                \E msg \in Commands :
                    /\ rx' = RetainedAfter(rx, msg)
                    /\ rx_lagged' = MissedAfter(rx, rx_lagged)
          /\ \A answer \in {"present", "absent"} :
                (Answered(answer) /\ announcer = "recv") =>
                    /\ announce_rx' = RetainedAfter(announce_rx, AnnouncementFor(answer))
                    /\ announce_lagged' = MissedAfter(announce_rx, announce_lagged)
                    /\ pc' /= "probe" \/ Len(hist'.probes) > Len(hist.probes)]_vars
    /\ [](/\ (btle_running /\ published < MaxPublishes) => ENABLED BtleTrigger
          /\ published < MaxPublishes => ENABLED MqttPublish
          /\ (\E t \in BagToSet(timers) : now >= t.due) => ENABLED TimerFire
          /\ pc = "probe" => ENABLED ScannerProbeDone)

\* Both topics are at capacity and both receivers have lost a message to a
\* publish that was not held up.
C14_Witness ==
    /\ Len(rx) = ChannelCapacity
    /\ rx_lagged > 0
    /\ Len(announce_rx) = ChannelCapacity
    /\ announce_lagged > 0

\* The step takes the oldest retained command from the command topic.
TakesCommand == rx /= <<>> /\ rx' = Tail(rx) /\ pc' /= "aborted"

\* C13: a command is taken from the command topic only by a Scanner that is
\* handling none, and it is the oldest retained one; the handling of a new
\* command begins only so; while a sweep sleeps or probes, commands published
\* by others are only added behind those waiting; a probe starts only when
\* none is in flight, so at most one is in flight.
C13_CommandsHandledOneAtATime ==
    /\ [][/\ TakesCommand =>
                /\ pc = "recv"
                /\ hist'.cmd = Some(Head(rx))
                /\ hist'.at = now
                /\ hist'.answers = <<>>
          /\ hist'.cmd /= hist.cmd => TakesCommand
          /\ (pc \in {"sleep", "probe"} /\ pc' /= "aborted") =>
                \/ rx' = rx
                \/ \E msg \in Commands : rx' = Append(rx, msg)
          /\ Len(hist'.probes) > Len(hist.probes) =>
                /\ Len(hist.probes) = Len(hist.answers)
                /\ Len(hist'.probes) = Len(hist.probes) + 1
                /\ pc' = "probe"]_vars
    /\ [](Len(hist.probes) - Len(hist.answers) = IF pc = "probe" THEN 1 ELSE 0)

\* The second probe of a sweep is in flight while two commands, published
\* meanwhile, wait on the command topic.
C13_Witness ==
    /\ pc = "probe"
    /\ hist.swept \in {"arrive", "depart"}
    /\ Len(hist.probes) = 2
    /\ Len(hist.answers) = 1
    /\ Len(rx) >= 2

\* C15: the Listener puts exactly one Command on the command topic for an
\* inbound Publish: ScanArrive when the topic ends with "/arrive", ScanDepart
\* for any other topic.
C15_TopicMapsToOneCommand ==
    io.fn = "event_loop" =>
        IF io.once = None
        THEN rx = <<>>
        ELSE LET topic == io.arg IN
             rx = <<IF Len(topic) >= 2 /\ topic[Len(topic)] = "arrive"
                    THEN ScanArrive ELSE ScanDepart>>

\* The topic arrive/scan/depart (topic_path "arrive") was mapped to one
\* ScanDepart.
C15_Witness ==
    /\ io.fn = "event_loop"
    /\ io.once = Some(<<"arrive", "scan", "depart">>)
    /\ rx = <<ScanDepart>>

Ascii == {"T", "D", "t", "e", "s", "d", "v", "i", "c", "1", "2", "3", "'", " ", "_"}

BeginsDepartureSweep ==
    /\ hist'.swept = "depart"
    /\ pc' = "probe"
    /\ sweep'.idx = 1
    /\ hist'.probes = <<order[1]>>

\* C17: a ScanArrive and a ScanDepart, whatever lastGlobalTrigger is, set
\* lastGlobalTrigger to the current time and begin their sweep in the step
\* that takes them; a DeviceTrigger that is the next command handled, less
\* than deviceTriggerDebounce after the start of that sweep, is dropped.
C17_ScanCommandsNotDebounced ==
    [][/\ Handles(ScanArrive) =>
            /\ last_trigger' = Some(now)
            /\ BeginsArrivalSweep
       /\ Handles(ScanDepart) =>
            /\ last_trigger' = Some(now)
            /\ BeginsDepartureSweep
       /\ (/\ Handles(DeviceTrigger)
           /\ hist.cmd \in {Some(ScanArrive), Some(ScanDepart)}
           /\ now - hist.at < cfg.device_trigger_debounce)
          => /\ pc' = "recv"
             /\ hist'.swept = "none"
             /\ hist'.probes = <<>>
             /\ UNCHANGED <<last_trigger, device_map, timers, announce_rx>>]_vars

\* A ScanDepart handled less than deviceTriggerDebounce after the previous
\* trigger has run its sweep over both devices and has set lastGlobalTrigger
\* to its start, which is still less than deviceTriggerDebounce ago.
C17_Witness ==
    /\ hist.cmd = Some(ScanDepart)
    /\ IsSome(hist.last0)
    /\ hist.at - Unwrap(hist.last0) < cfg.device_trigger_debounce
    /\ hist.swept = "depart"
    /\ Len(hist.answers) = 2
    /\ last_trigger = Some(hist.at)
    /\ pc = "recv"
    /\ now - hist.at < cfg.device_trigger_debounce

\* Recheck timers are scheduled one at a time, by a probe answered present
\* and by nothing else: the number ever scheduled is the number of probes
\* answered present.
OneTimerPerPresentAnswer ==
    /\ Answered("present") => BagCardinality(timers') = BagCardinality(timers) + 1
    /\ BagCardinality(timers') > BagCardinality(timers) => Answered("present")

\* C18 (as claimed): a probe answered absent clears the device's lastSeenAt,
\* puts an Absent Announcement on the announcement topic and schedules no
\* recheck timer; timers are scheduled by present answers alone, one each.
C18_Claim ==
    [][/\ Answered("absent") =>
            /\ device_map'[ProbedName].seen = NotSeen
            /\ announce_rx' = Append(announce_rx, AnnouncementFor("absent"))
            /\ timers' = timers
       /\ OneTimerPerPresentAnswer]_vars

\* C18 (amended): a probe answered absent clears the device's lastSeenAt and
\* schedules no recheck timer; it puts an Absent Announcement on the
\* announcement topic as long as the Announcer is still subscribed to it, and
\* once the Announcer has exited it puts none and the Scanner loop aborts
\* (lastSeenAt is cleared all the same); timers are scheduled by present
\* answers alone, one each.
C18_AbsentClearsAndSchedulesNothing ==
    [][/\ Answered("absent") =>
            /\ device_map'[ProbedName].seen = NotSeen
            /\ \A d \in Devices \ {ProbedName} : device_map'[d] = device_map[d]
            /\ timers' = timers
            /\ IF announcer = "recv"
               THEN /\ announce_rx' = Append(announce_rx, AnnouncementFor("absent"))
                    /\ pc' /= "aborted"
               ELSE /\ announce_rx' = announce_rx
                    /\ pc' = "aborted"
       /\ OneTimerPerPresentAnswer]_vars

\* A device that was seen has been rechecked and found absent: its
\* lastSeenAt is cleared, the Absent Announcement is the last on the topic and
\* no recheck timer is left for it.
C18_Witness ==
    /\ hist.swept = "recheck"
    /\ hist.answers = <<"absent">>
    /\ pc = "recv"
    /\ IsSome(hist.seen0[hist.probes[1]])
    /\ device_map[hist.probes[1]].seen = NotSeen
    /\ announce_rx /= <<>>
    /\ announce_rx[Len(announce_rx)] =
          DeviceAnnouncement(hist.probes[1], MacOf(hist.probes[1]), Absent)
    /\ \A t \in BagToSet(timers) : t.name /= hist.probes[1]

\* The step starts a probe.
StartsProbe == Len(hist'.probes) = Len(hist.probes) + 1

\* The step is the oracle answering (present or absent) with the Scanner
\* going on.
CompletesProbe ==
    (Answered("present") \/ Answered("absent")) /\ pc' /= "aborted"

\* C19: the first probe of a sweep starts in the step that takes the command,
\* also when devices before it are skipped by deviceSeenDebounce; when a
\* probe of a sweep completes, the sweep either ends at once (no device left
\* to probe) or sleeps until interscanDelay after that completion, and only
\* then starts its next probe.
C19_ProbesSpacedByInterscanDelay ==
    /\ [][/\ StartsProbe =>
                IF hist.probes = <<>> \/ hist'.cmd /= hist.cmd \/ pc = "recv"
                THEN TakesCommand /\ hist'.at = now /\ sweep'.now = now
                ELSE /\ pc = "sleep"
                     /\ now >= sweep.wake
                     /\ sweep'.now = now
                     /\ hist'.swept \in {"arrive", "depart"}
          /\ CompletesProbe =>
                /\ pc' \in {"sleep", "recv"}
                /\ pc' = "sleep" => sweep'.wake = now + cfg.interscan_delay
                /\ hist.swept = "arrive" =>
                      (pc' = "sleep" <=>
                          \E j \in (sweep.idx + 1)..Len(order) :
                              ~WithinSeenDebounce(device_map'[order[j]].seen, now))
                /\ hist.swept = "depart" =>
                      (pc' = "sleep" <=> sweep.idx < Len(order))
          /\ pc = "sleep" => (sweep' = sweep \/ pc' = "probe")]_vars
    /\ []((pc = "probe" /\ Len(hist.probes) >= 2) =>
              sweep.now >= hist.at + (Len(hist.probes) - 1) * cfg.interscan_delay)

\* The second probe of an arrival sweep is in flight, started at least
\* interscanDelay after the sweep began.
C19_Witness ==
    /\ pc = "probe"
    /\ hist.swept = "arrive"
    /\ Len(hist.probes) = 2
    /\ Len(hist.answers) = 1
    /\ sweep.now >= hist.at + cfg.interscan_delay

\* The registry's keys and addresses stay; a device's lastSeenAt changes only
\* in the step that completes a probe of that device.
RegistryFixed ==
    /\ DOMAIN device_map' = DOMAIN device_map
    /\ \A d \in Devices :
          /\ device_map'[d].mac_address = device_map[d].mac_address
          /\ device_map'[d].seen /= device_map[d].seen =>
                /\ Answered("present") \/ Answered("absent")
                /\ ProbedName = d

\* C20 (as claimed): the registry is fixed, lastSeenAt changes only by a
\* completed probe of its device, and a present probe of a device whose
\* lastSeenAt is set writes a value that is not smaller.
C20_Claim ==
    [][/\ RegistryFixed
       /\ (Answered("present") /\ IsSome(device_map[ProbedName].seen)) =>
             Unwrap(device_map'[ProbedName].seen) >= Unwrap(device_map[ProbedName].seen)]_vars

\* C20 (amended): the registry is fixed, lastSeenAt changes only by a
\* completed probe of its device, and a present probe writes the wall-clock
\* time read when that probe started (so that the values written for a device
\* are non-decreasing as long as the wall clock is not set back between the
\* starts of its probes).
C20_LastSeenIsProbeStartTime ==
    [][/\ RegistryFixed
       /\ StartsProbe => sweep'.now = SystemTimeNow
       /\ pc = "probe" => (sweep'.now = sweep.now \/ pc' /= "probe")
       /\ Answered("present") => device_map'[ProbedName].seen = Seen(sweep.now)
       /\ Answered("absent") => device_map'[ProbedName].seen = NotSeen]_vars

\* A device seen before has been found present again by a probe that started
\* after the wall clock was set back: its lastSeenAt is now smaller.
C20_Witness ==
    \E d \in Devices :
        /\ IsSome(hist.seen0[d])
        /\ IsSome(device_map[d].seen)
        /\ Unwrap(device_map[d].seen) < Unwrap(hist.seen0[d])

\* The step is the Scanner taking from the command topic a CheckStillPresent
\* whose name is not in the registry.
TakesUnknownRecheck ==
    /\ pc = "recv"
    /\ rx_lagged = 0
    /\ rx /= <<>>
    /\ Head(rx).type = "CheckStillPresent"
    /\ Head(rx).name \notin DOMAIN device_map
    /\ rx' = Tail(rx)

\* C21: a RecheckDevice whose name is not in the registry is taken from the
\* command topic and ignored: no probe is started, no Announcement is
\* emitted, no timer is scheduled, the registry, lastGlobalTrigger and the
\* tasks are as before, the Scanner is back at its receive, and a command
\* waiting behind it can be taken next.
C21_UnknownRecheckIgnored ==
    /\ [][TakesUnknownRecheck =>
             /\ pc' = "recv"
             /\ sweep' = Idle
             /\ hist'.probes = <<>>
             /\ hist'.anns = <<>>
             /\ UNCHANGED <<device_map, last_trigger, timers, announce_rx,
                            announce_lagged, announcer, outbox, disconnected,
                            btle_running, rx_lagged, now, skew>>]_vars
    /\ []((/\ hist.cmd = Some(CheckStillPresent(UnknownName))
            /\ rx /= <<>>
            /\ rx_lagged = 0) => ENABLED ScannerRecv)

\* A RecheckDevice of an unknown name has been handled while a device is
\* marked as seen and another command waits on the command topic: nothing was
\* probed or announced, the registry is as it was, the Scanner is at its
\* receive.
C21_Witness ==
    /\ hist.cmd = Some(CheckStillPresent(UnknownName))
    /\ pc = "recv"
    /\ hist.probes = <<>>
    /\ \E d \in Devices : IsSome(device_map[d].seen)
    /\ \A d \in Devices : device_map[d].seen = hist.seen0[d]
    /\ rx /= <<>>

\* A recheck of device d is outstanding: a recheck timer for it still sleeps,
\* a CheckStillPresent for it waits on the command topic, or one is being
\* handled.
RecheckOutstanding(d) ==
    \/ \E t \in BagToSet(timers) : t.name = d
    \/ \E i \in 1..Len(rx) : rx[i] = CheckStillPresent(d)
    \/ /\ pc = "probe"
       /\ sweep.kind = "recheck"
       /\ order[sweep.idx] = d

\* C22 (as claimed): while the Scanner loop runs, every device whose
\* lastSeenAt is set has a recheck outstanding.
C22_Claim ==
    ScannerAlive =>
        \A d \in Devices : IsSome(device_map[d].seen) => RecheckOutstanding(d)

\* The number of pending recheck timers that are equal to t (same device,
\* same time).
TimerCount(bag, t) == IF t \in BagToSet(bag) THEN bag[t] ELSE 0

\* The recheck timers pending before or after the step.
TimerUniverse == BagToSet(timers) \cup BagToSet(timers')

\* C23: a recheck timer leaves the set of pending timers only by running out
\* itself, not before presenceTimeout after it was scheduled, one timer at a
\* time; in that step its RecheckDevice(name) is published on the command
\* topic when the Scanner is still subscribed (with an aborted Scanner the
\* send has no receiver and nothing is retained); a probe answered present
\* adds a timer due presenceTimeout later and leaves the pending ones, also
\* those of the same device; a probe answered absent or failed, and the
\* abort of the Scanner, leave them all; a timer that has run out can fire
\* whatever the Scanner does; a RecheckDevice of a registered device starts a
\* probe of it whether its lastSeenAt is set or not.
C23_TimersNeverCancelled ==
    /\ [][/\ \A t \in TimerUniverse :
                /\ TimerCount(timers', t) < TimerCount(timers, t) =>
                      /\ now >= t.due
                      /\ timers' = timers (-) SetToBag({t})
                      /\ IF ScannerAlive
                         THEN rx' = Send(rx, rx_lagged, CheckStillPresent(t.name))[1]
                         ELSE rx' = rx
                      /\ UNCHANGED <<pc, sweep, device_map>>
                /\ TimerCount(timers', t) > TimerCount(timers, t) =>
                      /\ Answered("present")
                      /\ t = [name |-> ProbedName, due |-> now + cfg.presence_timeout]
                      /\ timers' = timers (+) SetToBag({t})
          /\ \A d \in Devices :
                (Handles(CheckStillPresent(d))) =>
                    /\ pc' = "probe"
                    /\ hist'.probes = <<d>>
                    /\ sweep'.kind = "recheck"]_vars
    /\ [](\A t \in BagToSet(timers) :
              now >= t.due =>
                  ENABLED (TimerFire /\ timers' = timers (-) SetToBag({t})))

\* Two recheck timers of one device are pending at once, for different
\* times, the device having been found present twice; the Scanner has
\* aborted since, and the first of the timers has run out and can fire.
C23_Witness ==
    /\ pc = "aborted"
    /\ \E t1, t2 \in BagToSet(timers) :
          /\ t1.name = t2.name
          /\ t1.due < t2.due
          /\ now >= t1.due

\* A DeviceTrigger handled now falls into the debounce window: a
\* lastGlobalTrigger is set and not more than deviceTriggerDebounce has
\* elapsed since.
InDebounceWindow ==
    /\ IsSome(last_trigger)
    /\ SystemTimeNow >= Unwrap(last_trigger)
    /\ SystemTimeNow - Unwrap(last_trigger) <= cfg.device_trigger_debounce

\* C24: lastGlobalTrigger is written only by the step that takes a
\* ScanArrive, a ScanDepart or a DeviceTrigger outside the debounce window,
\* and then to the current time; a DeviceTrigger inside the window is dropped
\* and leaves lastGlobalTrigger, the registry, the timers and the
\* announcement topic as they are; the handling of a RecheckDevice, its probe
\* included, leaves lastGlobalTrigger as it is; a DeviceTrigger outside the
\* window is accepted however many were dropped since the last accepted one,
\* so that the window is counted from the last accepted trigger and dropped
\* triggers do not extend it.
C24_DroppedTriggerLeavesLastTrigger ==
    [][/\ last_trigger' /= last_trigger =>
            /\ \/ Handles(ScanArrive)
               \/ Handles(ScanDepart)
               \/ Handles(DeviceTrigger) /\ ~InDebounceWindow
            /\ last_trigger' = Some(SystemTimeNow)
       /\ Handles(DeviceTrigger) =>
            IF InDebounceWindow
            THEN /\ UNCHANGED <<last_trigger, device_map, timers, announce_rx>>
                 /\ pc' = "recv"
                 /\ hist'.swept = "none"
                 /\ hist'.probes = <<>>
            ELSE /\ last_trigger' = Some(SystemTimeNow)
                 /\ hist'.swept = "arrive"
       /\ (\E d \in Devices : Handles(CheckStillPresent(d))) => UNCHANGED last_trigger
       /\ hist.swept = "recheck" /\ pc = "probe" => UNCHANGED last_trigger]_vars

\* A DeviceTrigger was dropped after the last accepted trigger and has left
\* lastGlobalTrigger and the registry as they were; by now more than
\* deviceTriggerDebounce has elapsed since the last accepted trigger, though
\* not since the dropped one, and the next DeviceTrigger waits to be taken:
\* it is outside the window.
C24_Witness ==
    /\ hist.cmd = Some(DeviceTrigger)
    /\ hist.swept = "none"
    /\ last_trigger = hist.last0
    /\ \A d \in Devices : device_map[d].seen = hist.seen0[d]
    /\ hist.at > Unwrap(last_trigger)
    /\ SystemTimeNow - hist.at <= cfg.device_trigger_debounce
    /\ ~InDebounceWindow
    /\ pc = "recv"
    /\ rx_lagged = 0
    /\ rx /= <<>>
    /\ Head(rx) = DeviceTrigger

\* C25: when the Announcer has exited, a probe that is answered (present or
\* absent) puts no Announcement on the announcement topic and the Scanner
\* loop aborts in that step; the probed device's lastSeenAt is written all
\* the same (the probe's start time for present, cleared for absent), and
\* for present its recheck timer is scheduled, due presenceTimeout later;
\* for absent no timer is scheduled.  While the Announcer is subscribed an
\* answered probe does not abort the Scanner.
C25_AbortAfterAnnouncerExit ==
    [][/\ \A answer \in {"present", "absent"} :
            (Answered(answer) /\ announcer /= "recv") =>
                /\ pc' = "aborted"
                /\ announce_rx' = announce_rx
                /\ hist'.anns = hist.anns
                /\ device_map'[ProbedName].seen =
                      (IF answer = "present" THEN Seen(sweep.now) ELSE NotSeen)
                /\ timers' =
                      (IF answer = "present"
                       THEN timers (+) SetToBag({[name |-> ProbedName,
                                                  due |-> now + cfg.presence_timeout]})
                       ELSE timers)
       /\ \A answer \in {"present", "absent"} :
            (Answered(answer) /\ announcer = "recv") => pc' /= "aborted"]_vars

\* The Announcer has failed on a publish; the probe of a device that was not
\* seen before has since been answered present: no Announcement was emitted
\* for it, the Scanner has aborted, the device is marked as seen and its
\* recheck timer is pending.
C25_Witness ==
    /\ announcer = "failed"
    /\ pc = "aborted"
    /\ hist.answers /= <<>>
    /\ hist.answers[Len(hist.answers)] = "present"
    /\ Len(hist.anns) < Len(hist.answers)
    /\ LET d == hist.probes[Len(hist.probes)] IN
       /\ hist.seen0[d] = NotSeen
       /\ IsSome(device_map[d].seen)
       /\ \E t \in BagToSet(timers) : t.name = d

====
